---- MODULE Spec2Model ----
(***************************************************************************)
(* A model of the office NFL pool: the table transforms of transform.py    *)
(* and the season assembler of make_predictions.py.                        *)
(*                                                                         *)
(* A table (pandas DataFrame) is a sequence of rows; a row is a function   *)
(* from column names to cells; a cell is Null (NaN / None) or Some(v).     *)
(* A fraction (WinPct, a rolling mean) is kept exact as <<num, den>>.      *)
(***************************************************************************)
EXTENDS Integers, Sequences, FiniteSets, TLC

VARIABLES
    pc,                 \* position in the script, or in the call under study
    season2015_bygame,  \* the current season's datasheet, one row per game
    prior_data_byteam,  \* the historical log, one row per team per game
    season2015_byteam,  \* the current season, one row per team per week
    df,                 \* the working table of the script / of the call
    df_bygame,          \* the table from_byteam_to_bygame returns
    df_byteam,          \* the by-team view rebuilt from df_bygame
    arg,                \* the table handed to a transform under study
    param,              \* the other arguments of that call
    arg2,               \* a second table handed to the same transform
    df2,                \* what the transform makes of the second table
    viable_input,       \* per row of the stage's table: no feature is null
    future_weeks,       \* per row: the target is unobserved, not a bye
    train,              \* per row: the row is in the training set
    result,             \* the win results, then the final report
    points_result,      \* the predicted points, one row per game
    printed             \* the messages printed so far

\* the second run of a transform under study
pairVars == <<arg2, df2>>

\* the state of the two model stages
stageVars ==
    <<viable_input, future_weeks, train, result, points_result, printed>>

vars == <<pc, season2015_bygame, prior_data_byteam, season2015_byteam,
          df, df_bygame, df_byteam, arg, param, pairVars, stageVars>>

----------------------------------------------------------------------------
(* Cells and tables *)

Null == <<>>
Some(v) == <<v>>
IsNull(x) == x = Null
NotNull(x) == x # Null
Val(x) == x[1]

Columns(t) == IF t = <<>> THEN {} ELSE DOMAIN t[1]

Range(s) == {s[i] : i \in DOMAIN s}

RECURSIVE Concat(_)
\* the concatenation of a sequence of tables
Concat(ts) == IF ts = <<>> THEN <<>> ELSE Head(ts) \o Concat(Tail(ts))

\* del df[c] for every c in cs
DropCols(r, cs) == [c \in (DOMAIN r) \ cs |-> r[c]]

\* df[c] = v
WithCol(r, c, v) == [k \in (DOMAIN r) \cup {c} |-> IF k = c THEN v ELSE r[k]]

\* df.columns = [name[c] for c in df.columns]
Rename(r, name) ==
    [n \in {name[c] : c \in DOMAIN r} |-> r[CHOOSE c \in DOMAIN r : name[c] = n]]

\* the rows of a by-team table at home (athome TRUE) or away (FALSE)
Side(t, athome) == SelectSeq(t, LAMBDA r : r["AtHome"] = Some(athome))

\* the key of a row on the columns `on`
Key(r, on) == [k \in on |-> r[k]]

----------------------------------------------------------------------------
(* transform.from_byteam_to_bygame *)

common_cols == {"Season", "Week", "Home", "Away"}

HomeColName(c, dont_mirror) ==
    IF c \in common_cols THEN c
    ELSE IF c = "Team" THEN "Home"
    ELSE IF c = "Opponent" THEN "Away"
    ELSE IF c \in dont_mirror THEN c
    ELSE "H_" \o c

\* the away partition keeps every column but the dont_mirror ones
AwayKeeps(c, dont_mirror) ==
    \/ c \in common_cols
    \/ c \in {"Team", "Opponent"}
    \/ c \notin dont_mirror

AwayColName(c) ==
    IF c \in common_cols THEN c
    ELSE IF c = "Team" THEN "Away"
    ELSE IF c = "Opponent" THEN "Home"
    ELSE "A_" \o c

\* one left row joined with one right row: the left columns, then the
\* right columns that are not keys
JoinRows(l, r, on) ==
    [c \in (DOMAIN l) \cup ((DOMAIN r) \ on) |->
        IF c \in DOMAIN l THEN l[c] ELSE r[c]]

\* a left row without a match: the right columns are null
JoinNull(l, rightCols, on) ==
    [c \in (DOMAIN l) \cup (rightCols \ on) |->
        IF c \in DOMAIN l THEN l[c] ELSE Null]

Matches(l, right, on) ==
    SelectSeq(right, LAMBDA r : Key(r, on) = Key(l, on))

RowsOfMatches(l, ms, on) == [j \in 1..Len(ms) |-> JoinRows(l, ms[j], on)]

\* how='inner': a left row without a match is dropped
MergeInner(left, right, on, rightCols) ==
    Concat([i \in 1..Len(left) |->
                RowsOfMatches(left[i], Matches(left[i], right, on), on)])

\* left.merge(right, on=on, how='left'): every left row, in order, once per
\* matching right row (null keys match null keys), or once with nulls
MergeLeft(left, right, on, rightCols) ==
    Concat([i \in 1..Len(left) |->
        LET ms == Matches(left[i], right, on)
        IN  IF ms = <<>> THEN << JoinNull(left[i], rightCols, on) >>
            ELSE RowsOfMatches(left[i], ms, on)])

from_byteam_to_bygame(t, dont_mirror) ==
    LET cols == Columns(t) \ {"AtHome"}
        home0 == Side(t, TRUE)
        away0 == Side(t, FALSE)
        awayKept == {c \in cols : AwayKeeps(c, dont_mirror)}
        home == [i \in 1..Len(home0) |->
                    Rename(DropCols(home0[i], {"AtHome"}),
                           [c \in cols |-> HomeColName(c, dont_mirror)])]
        away == [i \in 1..Len(away0) |->
                    Rename(DropCols(away0[i], {"AtHome"} \cup (cols \ awayKept)),
                           [c \in awayKept |-> AwayColName(c)])]
    IN  MergeLeft(home, away, common_cols, {AwayColName(c) : c \in awayKept})

----------------------------------------------------------------------------
(* df.sort(['Team', 'Season', 'Week']) *)

\* team names in string order
TeamOrder == <<"A", "B", "C">>

TeamRank(team) == CHOOSE i \in DOMAIN TeamOrder : TeamOrder[i] = team

SortKey(r) == <<TeamRank(Val(r["Team"])), Val(r["Season"]), Val(r["Week"])>>

\* a sorts strictly before b
RowBefore(a, b) ==
    LET x == SortKey(a)
        y == SortKey(b)
    IN  \/ x[1] < y[1]
        \/ x[1] = y[1] /\ x[2] < y[2]
        \/ x[1] = y[1] /\ x[2] = y[2] /\ x[3] < y[3]

\* r put in its place in the sorted table s
Insert(r, s) ==
    LET k == Cardinality({i \in DOMAIN s : ~RowBefore(r, s[i])})
    IN  SubSeq(s, 1, k) \o <<r>> \o SubSeq(s, k + 1, Len(s))

\* the rows are left in the order they come in
SortRows_none(t) == t

RECURSIVE SortRows(_)
\* the rows of t in (Team, Season, Week) order.  The tables of this model
\* have no two rows with the same (Team, Season, Week), so the order among
\* equal keys, which pandas leaves open, never shows.
SortRows(t) ==
    IF t = <<>> THEN <<>>
    ELSE Insert(t[Len(t)], SortRows(SubSeq(t, 1, Len(t) - 1)))

\* the rows of t, up to and including row i, in the group of row i
GroupUpTo(t, i, by) == {j \in 1..i : Key(t[j], by) = Key(t[i], by)}

\* groupby(by)[c].shift(lag) at row i: the cell of column c `lag` rows
\* earlier in the group of row i, in table order
Shift(t, i, by, c, lag) ==
    LET g == GroupUpTo(t, i, by)
        back == {j \in g : Cardinality({k \in g : k > j}) = lag}
    IN  IF back = {} THEN Null ELSE t[CHOOSE j \in back : TRUE][c]

----------------------------------------------------------------------------
(* transform.add_derived_columns *)

Spread(r) ==
    IF IsNull(r["Points"]) \/ IsNull(r["PointsAllowed"]) THEN Null
    ELSE Some(Val(r["Points"]) - Val(r["PointsAllowed"]))

Ties(t, g) == Cardinality({j \in g : t[j]["Spread"] = Some(0)})
Wins(t, g) ==
    Cardinality({j \in g : NotNull(t[j]["Spread"]) /\ Val(t[j]["Spread"]) > 0})
Played(t, g) == Cardinality({j \in g : NotNull(t[j]["Spread"])})

\* a / b in floating point: 0 / 0 is NaN.  The fraction is kept unreduced.
Divide(a, b) == IF b = 0 THEN Null ELSE Some(<<a, b>>)

\* the denominator counts every row, not the non-null spreads
WinPct_countall(t, i) ==
    LET g == GroupUpTo(t, i, {"Team", "Season"})
    IN  Divide(Ties(t, g) + 2 * Wins(t, g), 2 * Cardinality(g))

\* (0.5 * (s == 0).cumsum() + (s > 0).cumsum()) / s.notnull().cumsum(), at
\* row i of t in the row order t has: (ties + 2 wins) / (2 played)
WinPct(t, i) ==
    LET g == GroupUpTo(t, i, {"Team", "Season"})
    IN  Divide(Ties(t, g) + 2 * Wins(t, g), 2 * Played(t, g))

\* Series.fillna(v)
FillNa(x, v) == IF IsNull(x) THEN Some(v) ELSE x

\* groupby(['Team', 'Season'])['Spread'].shift(1).isnull().fillna(False),
\* then False where Week == 1, at row i of the sorted table t
LastWkBye(t, i) ==
    LET shifted == Shift(t, i, {"Team", "Season"}, "Spread", 1)
        flag == FillNa(Some(IsNull(shifted)), FALSE)
    IN  IF t[i]["Week"] = Some(1) THEN Some(FALSE) ELSE flag

add_derived_columns(t) ==
    LET t1 == [i \in DOMAIN t |-> WithCol(t[i], "Spread", Spread(t[i]))]
        t2 == [i \in DOMAIN t |-> WithCol(t1[i], "WinPct", WinPct(t1, i))]
        t3 == SortRows(t2)
    IN  [i \in DOMAIN t |-> WithCol(t3[i], "LastWkBye", LastWkBye(t3, i))]

----------------------------------------------------------------------------
(* transform.add_rolling_mean and transform.add_lag *)

\* the cells of column c in the group of row i, in table order, up to row i
GroupCells(t, i, by, c) ==
    LET g == GroupUpTo(t, i, by)
    IN  [n \in 1..Cardinality(g) |->
            t[CHOOSE j \in g : Cardinality({x \in g : x <= j}) = n][c]]

RECURSIVE RollAcc(_, _, _)
\* pd.rolling_mean's running <<sum, number of observations>> after cell i of
\* s: a non-null cell enters, and the cell `window` places back leaves
RollAcc(s, i, window) ==
    IF i = 0 THEN <<0, 0>>
    ELSE LET p == RollAcc(s, i - 1, window)
             a == IF NotNull(s[i]) THEN <<p[1] + Val(s[i]), p[2] + 1>> ELSE p
         IN  IF i > window /\ NotNull(s[i - window])
             THEN <<a[1] - Val(s[i - window]), a[2] - 1>>
             ELSE a

\* more than min_periods observations are asked for
RollMean_strict(s, window, min_periods) ==
    LET a == RollAcc(s, Len(s), window)
    IN  IF a[2] > min_periods THEN Some(a) ELSE Null

\* pd.rolling_mean(s, window, min_periods) at the last cell of s: the mean
\* sum / observations, kept unreduced, or null below min_periods
RollMean(s, window, min_periods) ==
    LET a == RollAcc(s, Len(s), window)
    IN  IF a[2] >= min_periods THEN Some(a) ELSE Null

add_rolling_mean(t, c, prefix, window, min_periods) ==
    LET t1 == SortRows(t)
    IN  [i \in DOMAIN t |->
            WithCol(t1[i], prefix \o c,
                    RollMean(GroupCells(t1, i, {"Team"}, c), window, min_periods))]

\* the lag starts again with every season
LagCell_per_season(t, i, c, lag) == Shift(t, i, {"Team", "Season"}, c, lag)

\* df.groupby('Team')[c].shift(lag) at row i of the sorted table t
LagCell(t, i, c, lag) == Shift(t, i, {"Team"}, c, lag)

add_lag(t, c, prefix, lag) ==
    LET t1 == SortRows(t)
    IN  [i \in DOMAIN t |-> WithCol(t1[i], prefix \o c, LagCell(t1, i, c, lag))]

----------------------------------------------------------------------------
(* transform.add_ewma *)

RECURSIVE EwmAcc(_, _, _)
\* pd.ewma(s, com) with its defaults (adjust, no ignore_na, min_periods 0),
\* after cell i of s: <<weighted_avg, old_wt>>, the average null or a
\* fraction <<n, d>> and the weight a fraction <<a, b>>.  The weight of what
\* was seen decays by com / (1 + com) at every cell once a value was seen,
\* null cells included; a value enters with weight 1; a null cell leaves the
\* average as it is.
EwmAcc(s, i, com) ==
    IF i = 1
    THEN << IF NotNull(s[1]) THEN <<Val(s[1]), 1>> ELSE Null, <<1, 1>> >>
    ELSE LET p == EwmAcc(s, i - 1, com)
             avg == p[1]
             w == << com * p[2][1], (com + 1) * p[2][2] >>
             cur == s[i]
         IN  IF avg # Null
             THEN IF NotNull(cur)
                  THEN << IF avg[1] = Val(cur) * avg[2] THEN avg
                          ELSE << w[1] * avg[1] + Val(cur) * w[2] * avg[2],
                                  avg[2] * (w[1] + w[2]) >>,
                          << w[1] + w[2], w[2] >> >>
                  ELSE << avg, w >>
             ELSE IF NotNull(cur) THEN << <<Val(cur), 1>>, p[2] >>
             ELSE p

\* pd.ewma(s, com) at the last cell of s: null until a value was seen
Ewma(s, com) ==
    LET avg == EwmAcc(s, Len(s), com)[1]
    IN  IF avg = Null THEN Null ELSE Some(avg)

add_ewma(t, c, prefix, center) ==
    LET t1 == SortRows(t)
    IN  [i \in DOMAIN t |->
            WithCol(t1[i], prefix \o c,
                    Ewma(GroupCells(t1, i, {"Team"}, c), center))]

----------------------------------------------------------------------------
(* make_predictions.py, the by-team view rebuilt from the by-game table *)

\* the names a column can have before it is prefixed
BaseNames ==
    {"Points", "PointsAllowed", "Spread", "VegasSpread", "Fumbles",
     "WinPct", "LastWkBye", "m_Fumbles", "lag_m_Fumbles"}

StartsWith(p, n) == \E b \in BaseNames : p \o b = n

\* n[2:] for a name n that starts with the two-letter prefix p
Strip(p, n) == CHOOSE b \in BaseNames : p \o b = n

\* lines 229 and 231: Home -> Team, Away -> Opponent, H_x -> x, A_x -> O_x
HomeViewName_swapped(n) ==
    IF n = "Home" THEN "Opponent"
    ELSE IF n = "Away" THEN "Team"
    ELSE IF StartsWith("H_", n) THEN Strip("H_", n)
    ELSE IF StartsWith("A_", n) THEN "O_" \o Strip("A_", n)
    ELSE n

HomeViewName(n) ==
    IF n = "Home" THEN "Team"
    ELSE IF n = "Away" THEN "Opponent"
    ELSE IF StartsWith("H_", n) THEN Strip("H_", n)
    ELSE IF StartsWith("A_", n) THEN "O_" \o Strip("A_", n)
    ELSE n

\* lines 230 and 232: Away -> Team, Home -> Opponent, A_x -> x, H_x -> O_x
AwayViewName(n) ==
    IF n = "Away" THEN "Team"
    ELSE IF n = "Home" THEN "Opponent"
    ELSE IF StartsWith("A_", n) THEN Strip("A_", n)
    ELSE IF StartsWith("H_", n) THEN "O_" \o Strip("H_", n)
    ELSE n

\* lines 227, 229, 231, 235: the home perspective of every by-game row
HomeView(bygame) ==
    [i \in 1..Len(bygame) |->
        WithCol(Rename(bygame[i],
                       [n \in DOMAIN bygame[i] |-> HomeViewName(n)]),
                "AtHome", Some(TRUE))]

\* line 233: the home view has no PointsAllowed
HomeDropName(n) == IF n = "PointsAllowed" THEN "_" ELSE n

\* line 234: the away view takes its Points from PointsAllowed
AwayPointsName(n) ==
    IF n = "Points" THEN "_"
    ELSE IF n = "PointsAllowed" THEN "Points"
    ELSE n

\* lines 228, 230, 232, 234, 236: the away perspective of every by-game row
AwayView(bygame) ==
    [i \in 1..Len(bygame) |->
        WithCol(Rename(bygame[i],
                       [n \in DOMAIN bygame[i] |->
                            AwayPointsName(AwayViewName(n))]),
                "AtHome", Some(FALSE))]

\* lines 227-241: both views, without the rows that have no Team (the away
\* view of a bye week)
RebuildByTeam(bygame) ==
    LET h == HomeView(bygame)
        home == [i \in DOMAIN h |->
                    Rename(h[i], [n \in DOMAIN h[i] |-> HomeDropName(n)])]
    IN  SelectSeq(home \o AwayView(bygame), LAMBDA r : NotNull(r["Team"]))

----------------------------------------------------------------------------
(* make_predictions.py, from the two inputs to the by-team table *)

\* - VegasSpread
Neg(x) == IF IsNull(x) THEN Null ELSE Some(-Val(x))

\* line 78-81, 90, 92: the home team's row of a game of the datasheet
HomeOfGame(g) ==
    [Week |-> g["Week"], Team |-> g["Home Team"], Opponent |-> g["Away Team"],
     Points |-> g["Home Points"], PointsAllowed |-> g["Away Points"],
     VegasSpread |-> g["Vegas Spread"], Fumbles |-> g["Home Fumbles"],
     AtHome |-> Some(TRUE)]

\* line 83-86, 91, 93, 98: the away team's row
AwayOfGame(g) ==
    [Week |-> g["Week"], Team |-> g["Away Team"], Opponent |-> g["Home Team"],
     Points |-> g["Away Points"], PointsAllowed |-> g["Home Points"],
     VegasSpread |-> Neg(g["Vegas Spread"]), Fumbles |-> g["Away Fumbles"],
     AtHome |-> Some(FALSE)]

RECURSIVE Unique(_)
\* Series.unique(): the values of s in the order they first appear
Unique(s) ==
    IF s = <<>> THEN <<>>
    ELSE LET u == Unique(SubSeq(s, 1, Len(s) - 1))
         IN  IF s[Len(s)] \in Range(u) THEN u ELSE Append(u, s[Len(s)])

\* lines 110-113: every team of all_teams with every week of all_weeks
AllTeamsWeeks(all_teams, all_weeks) ==
    [n \in 1..(Len(all_teams) * Len(all_weeks)) |->
        [Team |-> all_teams[((n - 1) \div Len(all_weeks)) + 1],
         Week |-> all_weeks[((n - 1) % Len(all_weeks)) + 1]]]

\* left.merge(right, on=on, how='outer'): the rows of the left join, then
\* the right rows without a match, their left columns null
MergeOuter(left, right, on, leftCols, rightCols) ==
    LET unmatched == SelectSeq(right, LAMBDA r : Matches(r, left, on) = <<>>)
    IN  MergeLeft(left, right, on, rightCols)
        \o [i \in DOMAIN unmatched |->
                [c \in leftCols \cup rightCols |->
                    IF c \in rightCols THEN unmatched[i][c] ELSE Null]]

ByTeamCols ==
    {"Week", "Team", "Opponent", "Points", "PointsAllowed", "VegasSpread",
     "Fumbles", "AtHome"}

\* lines 78-118: two rows per game, a bye row for every team of all_teams in
\* every week it does not play, Season 2015, byes at home
Season2015ByTeam(bygame) ==
    LET home == [i \in DOMAIN bygame |-> HomeOfGame(bygame[i])]
        away == [i \in DOMAIN bygame |-> AwayOfGame(bygame[i])]
        all_teams == Unique([i \in DOMAIN home |-> home[i]["Team"]])
        all_weeks == Unique([i \in DOMAIN home |-> home[i]["Week"]])
        merged == MergeOuter(home \o away, AllTeamsWeeks(all_teams, all_weeks),
                             {"Team", "Week"}, ByTeamCols, {"Team", "Week"})
    IN  [i \in DOMAIN merged |->
            WithCol(WithCol(merged[i], "Season", Some(2015)),
                    "AtHome", FillNa(merged[i]["AtHome"], TRUE))]

\* lines 141-154
ModelCols ==
    {"Spread", "Season", "Week", "Team", "Opponent", "AtHome", "Points",
     "PointsAllowed", "VegasSpread", "LastWkBye", "lag_m_Fumbles"}

\* lines 157-159
AsmDontMirror == {"Spread", "VegasSpread", "Points", "PointsAllowed"}

----------------------------------------------------------------------------
(* make_predictions.py, the two model stages *)

\* lines 169-176, of the statistics the model keeps
ClassifierFeatures ==
    {"Home", "H_LastWkBye", "H_lag_m_Fumbles", "A_LastWkBye", "A_lag_m_Fumbles"}

\* lines 247-254
RegressorFeatures ==
    {"Team", "AtHome", "LastWkBye", "lag_m_Fumbles", "O_LastWkBye",
     "O_lag_m_Fumbles"}

\* the columns that hold names, and those that hold flags
StringCols == {"Home", "Away", "Team", "Opponent"}
BoolCols == {"AtHome", "LastWkBye", "H_LastWkBye", "A_LastWkBye", "O_LastWkBye"}

\* column c of table t has dtype object: it holds strings, or flags and a
\* null (a null turns a bool column into an object column)
ObjectDtype(t, c) ==
    \/ c \in StringCols
    \/ c \in BoolCols /\ \E i \in DOMAIN t : IsNull(t[i][c])

\* pd.get_dummies(input_df).notnull().all(axis=1): get_dummies puts, for a
\* column of dtype object, indicator columns that are never null; the dtypes
\* are those of the table `typed` the rows of t were taken from
ViableInput(t, features, typed) ==
    [i \in DOMAIN t |->
        \A c \in features : ObjectDtype(typed, c) \/ NotNull(t[i][c])]

\* lines 188 and 266: df[target].isnull() & df[opponent].notnull()
FutureWeeks(t, target, opponent) ==
    [i \in DOMAIN t |-> IsNull(t[i][target]) /\ NotNull(t[i][opponent])]

\* every viable row is trained on
TrainMask_viable(viable, future) == viable

\* lines 194 and 272: viable_input & ~future_weeks
TrainMask(viable, future) ==
    [i \in DOMAIN viable |-> viable[i] /\ ~future[i]]

\* lines 203, 207, 281, 285: viable_input & future_weeks
PredictMask(viable, future) ==
    [i \in DOMAIN viable |-> viable[i] /\ future[i]]

\* df[mask]
Masked(t, mask) ==
    LET idx == {i \in DOMAIN t : mask[i]}
    IN  [n \in 1..Cardinality(idx) |->
            t[CHOOSE i \in idx : Cardinality({j \in idx : j <= i}) = n]]

\* line 166: df.Spread > 0, false where Spread is null
Win(r) == NotNull(r["Spread"]) /\ Val(r["Spread"]) > 0

\* line 195: GradientBoostingClassifier.fit raises ValueError without
\* samples, and when the samples are of one class only
GbcFitRaises(t, mask) == Cardinality({Win(t[i]) : i \in {j \in DOMAIN t : mask[j]}}) < 2

\* line 273: Ridge.fit raises ValueError without samples
RidgeFitRaises(t, mask) == \A i \in DOMAIN t : ~mask[i]

\* lines 203 and 281: predict_proba and predict raise ValueError on an array
\* without samples (sklearn's check_array asks for one sample at least)
PredictRaises(rows) == rows = <<>>

RECURSIVE LexLess(_, _, _)
\* row a sorts strictly before row b on the columns cols
LexLess(a, b, cols) ==
    IF cols = <<>> THEN FALSE
    ELSE LET c == Head(cols)
         IN  \/ Val(a[c]) < Val(b[c])
             \/ a[c] = b[c] /\ LexLess(a, b, Tail(cols))

InsertBy(r, t, cols) ==
    LET k == Cardinality({i \in DOMAIN t : ~LexLess(r, t[i], cols)})
    IN  SubSeq(t, 1, k) \o <<r>> \o SubSeq(t, k + 1, Len(t))

RECURSIVE SortBy(_, _)
\* t.sort(cols); rows with equal keys are kept in the order they had
SortBy(t, cols) ==
    IF t = <<>> THEN <<>>
    ELSE InsertBy(t[Len(t)], SortBy(SubSeq(t, 1, Len(t) - 1), cols), cols)

\* left.merge(right, on=on): how='inner', only the left rows with a match
MergeOn(left, right, on) ==
    Concat([i \in 1..Len(left) |->
                RowsOfMatches(left[i], Matches(left[i], right, on), on)])

\* rank(method='first'): equal values are ranked in the order they come in
Rank_first(t, i) ==
    LET g == {j \in DOMAIN t : /\ t[j]["Season"] = t[i]["Season"]
                               /\ t[j]["Week"] = t[i]["Week"]}
        p == Val(t[i]["WinProbability"])
        less == {j \in g : Val(t[j]["WinProbability"]) < p}
        same == {j \in g : Val(t[j]["WinProbability"]) = p /\ j <= i}
    IN  Some(<< 2 * (Cardinality(less) + Cardinality(same)), 2 >>)

\* line 210: groupby(['Season', 'Week']).WinProbability.rank() at row i, the
\* mean of the places the equal values take, as the fraction <<2 rank, 2>>
Rank(t, i) ==
    LET g == {j \in DOMAIN t : /\ t[j]["Season"] = t[i]["Season"]
                               /\ t[j]["Week"] = t[i]["Week"]}
        p == Val(t[i]["WinProbability"])
        less == {j \in g : Val(t[j]["WinProbability"]) < p}
        same == {j \in g : Val(t[j]["WinProbability"]) = p}
    IN  Some(<< 2 * Cardinality(less) + Cardinality(same) + 1, 2 >>)

\* line 212
WinResultName(c) ==
    IF c = "Home" THEN "Home Team"
    ELSE IF c = "Away" THEN "Away Team"
    ELSE IF c = "WinProbability" THEN "Win Probability"
    ELSE c

\* lines 214-216
WinResultCols ==
    {"Season", "Week", "Home Team", "Away Team", "Date", "Day of Week",
     "Win Probability", "Confidence"}

\* lines 207-217: the rows predicted on, with the probabilities p the
\* classifier gave them, ranked within the week, joined with the datasheet
WinResult(rows, p, datasheet) ==
    LET r1 == [i \in DOMAIN rows |->
                WithCol([c \in {"Season", "Week", "Home", "Away"} |-> rows[i][c]],
                        "WinProbability", Some(p[i]))]
        r2 == SortBy(r1, <<"Season", "Week", "WinProbability">>)
        r3 == [i \in DOMAIN r2 |-> WithCol(r2[i], "Confidence", Rank(r2, i))]
        r4 == [i \in DOMAIN r3 |->
                Rename(r3[i], [c \in DOMAIN r3[i] |-> WinResultName(c)])]
        r5 == MergeOn(r4, datasheet, {"Week", "Home Team", "Away Team"})
        r6 == [i \in DOMAIN r5 |-> [c \in WinResultCols |-> r5[i][c]]]
    IN  SortBy(r6, <<"Date">>)

\* lines 227-237: the home and the away view, before the rows without a Team
\* are taken out; the dtypes of df_byteam are the dtypes of this table
BothViews(bygame) ==
    LET h == HomeView(bygame)
    IN  [i \in DOMAIN h |->
            Rename(h[i], [n \in DOMAIN h[i] |-> HomeDropName(n)])]
        \o AwayView(bygame)

\* line 289
HomeResultName(c) ==
    IF c = "Team" THEN "Home" ELSE IF c = "Opponent" THEN "Away" ELSE c

\* lines 290-291
AwayResultName(c) ==
    IF c = "Team" THEN "Away"
    ELSE IF c = "Opponent" THEN "Home"
    ELSE IF c = "Predicted Points" THEN "Predicted Points Allowed"
    ELSE c

\* line 295
PointsResultName(c) ==
    IF c = "Home" THEN "Home Team" ELSE IF c = "Away" THEN "Away Team" ELSE c

\* lines 285-295: the rows predicted on, with the points q the regressor
\* gave them, the home rows joined with the away rows of the same game
PointsResult(rows, q) ==
    LET result_byteam ==
            [i \in DOMAIN rows |->
                WithCol([c \in {"Season", "Week", "Team", "Opponent", "AtHome"}
                            |-> rows[i][c]],
                        "Predicted Points", Some(q[i]))]
        home0 == Side(result_byteam, TRUE)
        away0 == Side(result_byteam, FALSE)
        home_result ==
            [i \in DOMAIN home0 |->
                DropCols(Rename(home0[i],
                                [c \in DOMAIN home0[i] |-> HomeResultName(c)]),
                         {"AtHome"})]
        away_result ==
            [i \in DOMAIN away0 |->
                DropCols(Rename(away0[i],
                                [c \in DOMAIN away0[i] |-> AwayResultName(c)]),
                         {"AtHome"})]
        merged == MergeOn(home_result, away_result,
                          {"Season", "Week", "Home", "Away"})
    IN  [i \in DOMAIN merged |->
            Rename(merged[i], [c \in DOMAIN merged[i] |-> PointsResultName(c)])]

----------------------------------------------------------------------------
(* The converter under study: a by-team table is built row by row, then    *)
(* converted, then its home side is converted back.                        *)

MaxConvRows == 3

ConvTeams == {"A", "B"}
ConvWhen == {<<2014, 1>>, <<2015, 1>>, <<2015, 2>>}
ConvDontMirror == {{}, {"Points"}}

\* Every row carries stat values no other row has, so that a cell of the
\* result names the input row it was taken from.  A bye (null Opponent) is
\* recorded at home, as make_predictions.py line 118 records it.
ConvRow(when, team, opp, athome, i) ==
    [Season |-> Some(when[1]), Week |-> Some(when[2]),
     Team |-> Some(team), Opponent |-> opp, AtHome |-> Some(athome),
     Points |-> Some(i), Fumbles |-> Some(10 + i)]

InitCommon ==
    /\ season2015_bygame = <<>>
    /\ prior_data_byteam = <<>>
    /\ season2015_byteam = <<>>
    /\ df = <<>>
    /\ df_bygame = <<>>
    /\ df_byteam = <<>>
    /\ arg = <<>>
    /\ param = [op |-> "none"]
    /\ arg2 = <<>>
    /\ df2 = <<>>
    /\ viable_input = <<>>
    /\ future_weeks = <<>>
    /\ train = <<>>
    /\ result = <<>>
    /\ points_result = <<>>
    /\ printed = <<>>

ConvInit == pc = "input" /\ InitCommon

ConvAddRow ==
    /\ pc = "input"
    /\ Len(arg) < MaxConvRows
    /\ \E when \in ConvWhen, team \in ConvTeams, athome \in BOOLEAN :
       \E opp \in {Some(o) : o \in ConvTeams \ {team}}
                     \cup (IF athome THEN {Null} ELSE {}) :
          arg' = Append(arg, ConvRow(when, team, opp, athome, Len(arg) + 1))
    /\ UNCHANGED <<pairVars, stageVars, pc, season2015_bygame, prior_data_byteam, season2015_byteam,
                   df, df_bygame, df_byteam, param>>

ConvCall ==
    /\ pc = "input"
    /\ \E dm \in ConvDontMirror :
          /\ param' = [op |-> "from_byteam_to_bygame", dont_mirror |-> dm]
          /\ df_bygame' = from_byteam_to_bygame(arg, dm)
    /\ pc' = "converted"
    /\ UNCHANGED <<pairVars, stageVars, season2015_bygame, prior_data_byteam, season2015_byteam,
                   df, df_byteam, arg>>

ConvBack ==
    /\ pc = "converted"
    /\ df_byteam' = HomeView(df_bygame)
    /\ pc' = "back"
    /\ UNCHANGED <<pairVars, stageVars, season2015_bygame, prior_data_byteam, season2015_byteam,
                   df, df_bygame, arg, param>>

ConvNext == ConvAddRow \/ ConvCall \/ ConvBack

ConvSpec == ConvInit /\ [][ConvNext]_vars

----------------------------------------------------------------------------
(* add_derived_columns under study: a by-team table with one row per       *)
(* (Team, Season, Week) is built in any row order, then the call is made.  *)

MaxDerivedRows == 3

\* <<Team, Season, Week>>: a team with a full season and the last week of
\* the season before, and a second team
DerivedKeys ==
    {<<"A", 2014, 3>>, <<"A", 2015, 1>>, <<"A", 2015, 2>>, <<"A", 2015, 3>>,
     <<"B", 2015, 1>>, <<"B", 2015, 2>>}

\* <<Points, PointsAllowed>>: not played, won, lost, tied
Outcomes ==
    {<<Null, Null>>, <<Some(1), Some(0)>>, <<Some(0), Some(1)>>,
     <<Some(1), Some(1)>>}

DerivedRow(k, o) ==
    [Team |-> Some(k[1]), Season |-> Some(k[2]), Week |-> Some(k[3]),
     Points |-> o[1], PointsAllowed |-> o[2]]

KeysOf(t) ==
    {<<Val(t[i]["Team"]), Val(t[i]["Season"]), Val(t[i]["Week"])>> :
        i \in DOMAIN t}

DerivedInit == pc = "input" /\ InitCommon

DerivedAddRow ==
    /\ pc = "input"
    /\ Len(arg) < MaxDerivedRows
    /\ \E k \in DerivedKeys \ KeysOf(arg), o \in Outcomes :
          arg' = Append(arg, DerivedRow(k, o))
    /\ UNCHANGED <<pairVars, stageVars, pc, season2015_bygame, prior_data_byteam, season2015_byteam,
                   df, df_bygame, df_byteam, param>>

DerivedCall ==
    /\ pc = "input"
    /\ df' = add_derived_columns(arg)
    /\ param' = [op |-> "add_derived_columns"]
    /\ pc' = "derived"
    /\ UNCHANGED <<pairVars, stageVars, season2015_bygame, prior_data_byteam, season2015_byteam,
                   df_bygame, df_byteam, arg>>

DerivedNext == DerivedAddRow \/ DerivedCall

DerivedSpec == DerivedInit /\ [][DerivedNext]_vars

----------------------------------------------------------------------------
(* add_rolling_mean and add_lag under study: a table with one row per      *)
(* (Team, Season, Week) is built in any row order, then one call is made.  *)

MaxStatRows == 4

\* <<Team, Season, Week>>: two teams, each with a season and the end of the
\* season before
StatKeys ==
    {<<"A", 2014, 2>>, <<"A", 2015, 1>>, <<"A", 2015, 2>>,
     <<"B", 2014, 2>>, <<"B", 2015, 1>>}

StatValues == {Null, Some(1), Some(2)}

\* <<window, min_periods>>; <<5, 2>> are the defaults of add_rolling_mean
RollingParams == {<<2, 1>>, <<2, 2>>, <<5, 2>>}

Lags == {1, 2}

StatRow(k, v) ==
    [Team |-> Some(k[1]), Season |-> Some(k[2]), Week |-> Some(k[3]),
     Fumbles |-> v]

StatInit == pc = "input" /\ InitCommon

StatAddRow ==
    /\ pc = "input"
    /\ Len(arg) < MaxStatRows
    /\ \E k \in StatKeys \ KeysOf(arg), v \in StatValues :
          arg' = Append(arg, StatRow(k, v))
    /\ UNCHANGED <<pairVars, stageVars, pc, season2015_bygame, prior_data_byteam, season2015_byteam,
                   df, df_bygame, df_byteam, param>>

StatCallRollingMean ==
    /\ pc = "input"
    /\ \E wm \in RollingParams :
          /\ param' = [op |-> "add_rolling_mean", window |-> wm[1],
                       min_periods |-> wm[2]]
          /\ df' = add_rolling_mean(arg, "Fumbles", "m_", wm[1], wm[2])
    /\ pc' = "rolled"
    /\ UNCHANGED <<pairVars, stageVars, season2015_bygame, prior_data_byteam, season2015_byteam,
                   df_bygame, df_byteam, arg>>

StatCallLag ==
    /\ pc = "input"
    /\ \E lag \in Lags :
          /\ param' = [op |-> "add_lag", lag |-> lag]
          /\ df' = add_lag(arg, "Fumbles", "lag_", lag)
    /\ pc' = "lagged"
    /\ UNCHANGED <<pairVars, stageVars, season2015_bygame, prior_data_byteam, season2015_byteam,
                   df_bygame, df_byteam, arg>>

StatNext == StatAddRow \/ StatCallRollingMean \/ StatCallLag

StatSpec == StatInit /\ [][StatNext]_vars

----------------------------------------------------------------------------
(* The three grouped statistics run on two tables: a table is built in any *)
(* row order, a second table is made of it by one change (a row dropped,   *)
(* added, given another value, or two rows exchanged), and the same call   *)
(* is made on both.                                                        *)

MaxPairRows == 3

PairKeys ==
    {<<"A", 2014, 2>>, <<"A", 2015, 1>>, <<"A", 2015, 2>>, <<"B", 2015, 1>>}

DropRow(t, i) == SubSeq(t, 1, i - 1) \o SubSeq(t, i + 1, Len(t))

\* the tables one change away from t
Variants(t) ==
    {DropRow(t, i) : i \in DOMAIN t}
    \cup {[t EXCEPT ![i] = WithCol(t[i], "Fumbles", v)] :
              i \in DOMAIN t, v \in StatValues}
    \cup {[t EXCEPT ![i] = t[j], ![j] = t[i]] : i \in DOMAIN t, j \in DOMAIN t}
    \cup (IF Len(t) < MaxPairRows
          THEN {Append(t, StatRow(k, v)) :
                   k \in PairKeys \ KeysOf(t), v \in StatValues}
          ELSE {})

PairInit == pc = "input" /\ InitCommon

PairAddRow ==
    /\ pc = "input"
    /\ Len(arg) < MaxPairRows
    /\ \E k \in PairKeys \ KeysOf(arg), v \in StatValues :
          arg' = Append(arg, StatRow(k, v))
    /\ UNCHANGED <<pairVars, stageVars, pc, season2015_bygame,
                   prior_data_byteam, season2015_byteam, df, df_bygame,
                   df_byteam, param>>

PairCallRollingMean ==
    /\ pc = "input"
    /\ \E wm \in RollingParams, t2 \in Variants(arg) :
          /\ param' = [op |-> "add_rolling_mean", col |-> "m_Fumbles",
                       window |-> wm[1], min_periods |-> wm[2]]
          /\ arg2' = t2
          /\ df' = add_rolling_mean(arg, "Fumbles", "m_", wm[1], wm[2])
          /\ df2' = add_rolling_mean(t2, "Fumbles", "m_", wm[1], wm[2])
    /\ pc' = "paired"
    /\ UNCHANGED <<stageVars, season2015_bygame, prior_data_byteam,
                   season2015_byteam, df_bygame, df_byteam, arg>>

\* with the center of 2 of line 95
PairCallEwma ==
    /\ pc = "input"
    /\ \E t2 \in Variants(arg) :
          /\ param' = [op |-> "add_ewma", col |-> "ewma_Fumbles", center |-> 2]
          /\ arg2' = t2
          /\ df' = add_ewma(arg, "Fumbles", "ewma_", 2)
          /\ df2' = add_ewma(t2, "Fumbles", "ewma_", 2)
    /\ pc' = "paired"
    /\ UNCHANGED <<stageVars, season2015_bygame, prior_data_byteam,
                   season2015_byteam, df_bygame, df_byteam, arg>>

PairCallLag ==
    /\ pc = "input"
    /\ \E lag \in Lags, t2 \in Variants(arg) :
          /\ param' = [op |-> "add_lag", col |-> "lag_Fumbles", lag |-> lag]
          /\ arg2' = t2
          /\ df' = add_lag(arg, "Fumbles", "lag_", lag)
          /\ df2' = add_lag(t2, "Fumbles", "lag_", lag)
    /\ pc' = "paired"
    /\ UNCHANGED <<stageVars, season2015_bygame, prior_data_byteam,
                   season2015_byteam, df_bygame, df_byteam, arg>>

PairNext ==
    \/ PairAddRow
    \/ PairCallRollingMean
    \/ PairCallEwma
    \/ PairCallLag

PairSpec == PairInit /\ [][PairNext]_vars

----------------------------------------------------------------------------
(* The season assembler, make_predictions.py: the two inputs are read,     *)
(* then the script runs statement by statement.  Of the statistics the     *)
(* script carries, the model keeps Fumbles, m_Fumbles and lag_m_Fumbles.   *)

MaxGames == 2
MaxPriorGames == 1

AsmTeams == {"A", "B", "C"}
AsmWeeks == {1, 2}
PriorWeeks == {2}

\* what the datasheet holds of a game: the spread is known ahead of the
\* game, the fumbles are entered with the points
GameRow(w, h, a, o) ==
    ("Week" :> Some(w)) @@ ("Home Team" :> Some(h)) @@ ("Away Team" :> Some(a))
    @@ ("Home Points" :> o[1]) @@ ("Away Points" :> o[2])
    @@ ("Vegas Spread" :> Some(3))
    @@ ("Home Fumbles" :> IF IsNull(o[1]) THEN Null ELSE Some(1))
    @@ ("Away Fumbles" :> IF IsNull(o[2]) THEN Null ELSE Some(2))

\* the two rows the historical log holds of a game of season 2014
PriorRows(w, h, a, o) ==
    LET g == GameRow(w, h, a, o)
    IN  << WithCol(HomeOfGame(g), "Season", Some(2014)),
           WithCol(AwayOfGame(g), "Season", Some(2014)) >>

\* the team plays in week w of the datasheet
PlaysIn(team, w) ==
    \E i \in DOMAIN season2015_bygame :
        /\ season2015_bygame[i]["Week"] = Some(w)
        /\ Some(team) \in {season2015_bygame[i]["Home Team"],
                           season2015_bygame[i]["Away Team"]}

Init == pc = "read" /\ InitCommon

\* line 64: one more row of the datasheet; no team plays twice in a week
ReadGame ==
    /\ pc = "read"
    /\ Len(season2015_bygame) < MaxGames
    /\ \E w \in AsmWeeks, h \in AsmTeams, o \in Outcomes :
       \E a \in AsmTeams \ {h} :
          /\ ~PlaysIn(h, w)
          /\ ~PlaysIn(a, w)
          /\ season2015_bygame' = Append(season2015_bygame, GameRow(w, h, a, o))
    /\ UNCHANGED <<pairVars, stageVars, pc, prior_data_byteam, season2015_byteam, df, df_bygame,
                   df_byteam, arg, param>>

\* lines 71-73: one more played game of the historical log; no team plays
\* twice in a week
ReadPriorGame ==
    /\ pc = "read"
    /\ Len(prior_data_byteam) < 2 * MaxPriorGames
    /\ \E w \in PriorWeeks, h \in AsmTeams, o \in Outcomes \ {<<Null, Null>>} :
       \E a \in AsmTeams \ {h} :
          /\ \A i \in DOMAIN prior_data_byteam :
                prior_data_byteam[i]["Week"] = Some(w)
                    => prior_data_byteam[i]["Team"] \notin {Some(h), Some(a)}
          /\ prior_data_byteam' = prior_data_byteam \o PriorRows(w, h, a, o)
    /\ UNCHANGED <<pairVars, stageVars, pc, season2015_bygame, season2015_byteam, df, df_bygame,
                   df_byteam, arg, param>>

\* lines 78-118
MakeByTeam ==
    /\ pc = "read"
    /\ season2015_bygame # <<>>
    /\ season2015_byteam' = Season2015ByTeam(season2015_bygame)
    /\ pc' = "byteam"
    /\ UNCHANGED <<pairVars, stageVars, season2015_bygame, prior_data_byteam, df, df_bygame,
                   df_byteam, arg, param>>

\* lines 122-123
Combine ==
    /\ pc = "byteam"
    /\ df' = prior_data_byteam \o season2015_byteam
    /\ pc' = "combined"
    /\ UNCHANGED <<pairVars, stageVars, season2015_bygame, prior_data_byteam, season2015_byteam,
                   df_bygame, df_byteam, arg, param>>

\* line 127
Derive ==
    /\ pc = "combined"
    /\ df' = add_derived_columns(df)
    /\ pc' = "derived"
    /\ UNCHANGED <<pairVars, stageVars, season2015_bygame, prior_data_byteam, season2015_byteam,
                   df_bygame, df_byteam, arg, param>>

\* line 130, with the window of 5 and the min_periods of 2 of line 80
RollingMean ==
    /\ pc = "derived"
    /\ df' = add_rolling_mean(df, "Fumbles", "m_", 5, 2)
    /\ pc' = "rolled"
    /\ UNCHANGED <<pairVars, stageVars, season2015_bygame, prior_data_byteam, season2015_byteam,
                   df_bygame, df_byteam, arg, param>>

\* lines 134-138, with the lag of 1 of line 110
Lag ==
    /\ pc = "rolled"
    /\ df' = add_lag(df, "m_Fumbles", "lag_", 1)
    /\ pc' = "lagged"
    /\ UNCHANGED <<pairVars, stageVars, season2015_bygame, prior_data_byteam, season2015_byteam,
                   df_bygame, df_byteam, arg, param>>

\* lines 141-154
Select ==
    /\ pc = "lagged"
    /\ df' = [i \in DOMAIN df |-> [c \in ModelCols |-> df[i][c]]]
    /\ pc' = "selected"
    /\ UNCHANGED <<pairVars, stageVars, season2015_bygame, prior_data_byteam, season2015_byteam,
                   df_bygame, df_byteam, arg, param>>

\* lines 157-159; the by-team table stays in df, the result is df_bygame
ToByGame ==
    /\ pc = "selected"
    /\ df_bygame' = from_byteam_to_bygame(df, AsmDontMirror)
    /\ pc' = "bygame"
    /\ UNCHANGED <<pairVars, stageVars, season2015_bygame, prior_data_byteam, season2015_byteam,
                   df, df_byteam, arg, param>>

\* lines 227-241
Rebuild ==
    /\ pc = "bygame"
    /\ df_byteam' = RebuildByTeam(df_bygame)
    /\ pc' = "rebuilt"
    /\ UNCHANGED <<pairVars, stageVars, season2015_bygame, prior_data_byteam, season2015_byteam,
                   df, df_bygame, arg, param>>

Next ==
    \/ ReadGame
    \/ ReadPriorGame
    \/ MakeByTeam
    \/ Combine
    \/ Derive
    \/ RollingMean
    \/ Lag
    \/ Select
    \/ ToByGame
    \/ Rebuild

Spec == Init /\ [][Next]_vars

----------------------------------------------------------------------------
(* The two model stages under study: the by-game table of line 157 is      *)
(* built game by game, in the (Home, Season, Week) order the sort of       *)
(* add_lag leaves it in, together with the datasheet rows of its games;    *)
(* then the script runs from line 166 on.  The two predictors are black    *)
(* boxes: what they predict is any value of a small set.                   *)

MaxStageGames == 4

\* <<home team, away team>>
StageMatchups == << <<"A", "B">>, <<"C", "D">>, <<"E", "F">> >>

StageWeeks == {1, 2}

\* a lagged rolling mean of the fumbles
StageMean == Some(<<3, 2>>)

\* <<<<Points, PointsAllowed>> of the home team, its lagged mean>>.  In the
\* first week the mean may not be there yet: a game won or lost, and a game
\* won or not played without the mean.  In the second week the mean is
\* there: a game not played, won, lost, or with the home points entered only.
StagePlays(w) ==
    IF w = 1
    THEN {<< <<Some(1), Some(0)>>, StageMean >>,
          << <<Some(0), Some(1)>>, StageMean >>,
          << <<Some(1), Some(0)>>, Null >>, << <<Null, Null>>, Null >>}
    ELSE {<< <<Null, Null>>, StageMean >>, << <<Some(1), Some(0)>>, StageMean >>,
          << <<Some(0), Some(1)>>, StageMean >>, << <<Some(1), Null>>, StageMean >>}

\* win probabilities, in tenths
ProbValues == {3, 7}

PointValues == {20}

\* the by-game row of a game, or of a bye week (a null)
StageByGame(w, h, a, o, hv) ==
    [Season |-> Some(2015), Week |-> Some(w), Home |-> Some(h), Away |-> a,
     Points |-> o[1], PointsAllowed |-> o[2],
     Spread |-> Spread([Points |-> o[1], PointsAllowed |-> o[2]]),
     VegasSpread |-> IF IsNull(a) THEN Null ELSE Some(3),
     H_LastWkBye |-> Some(FALSE), H_lag_m_Fumbles |-> hv,
     A_LastWkBye |-> IF IsNull(a) THEN Null ELSE Some(FALSE),
     A_lag_m_Fumbles |-> IF IsNull(a) THEN Null ELSE StageMean]

\* the datasheet row of game m of week w
StageGame(w, m, o) ==
    WithCol(WithCol(GameRow(w, StageMatchups[m][1], StageMatchups[m][2], o),
                    "Date", Some(10 * w + m)),
            "Day of Week", Some(m))

\* the place of (home team of matchup m, week w) in the order of the table
Slot(m, w) == (m - 1) * Cardinality(StageWeeks) + w

SlotOf(r) ==
    Slot(CHOOSE m \in DOMAIN StageMatchups : Some(StageMatchups[m][1]) = r["Home"],
         Val(r["Week"]))

StageInit == pc = "input" /\ InitCommon

StageAddGame ==
    /\ pc = "input"
    /\ Len(df_bygame) < MaxStageGames
    /\ \E m \in DOMAIN StageMatchups, w \in StageWeeks :
          /\ df_bygame # <<>> => SlotOf(df_bygame[Len(df_bygame)]) < Slot(m, w)
          /\ \/ \E play \in StagePlays(w) :
                   /\ df_bygame' =
                        Append(df_bygame,
                               StageByGame(w, StageMatchups[m][1],
                                           Some(StageMatchups[m][2]),
                                           play[1], play[2]))
                   /\ season2015_bygame' =
                        Append(season2015_bygame, StageGame(w, m, play[1]))
             \/ /\ m = 1
                /\ df_bygame' =
                     Append(df_bygame,
                            StageByGame(w, StageMatchups[m][1], Null,
                                        <<Null, Null>>, StageMean))
                /\ UNCHANGED season2015_bygame
    /\ UNCHANGED <<pairVars, stageVars, pc, prior_data_byteam,
                   season2015_byteam, df, df_byteam, arg, param>>

\* lines 166-194
ClassifierSplit ==
    /\ pc = "input"
    /\ viable_input' = ViableInput(df_bygame, ClassifierFeatures, df_bygame)
    /\ future_weeks' = FutureWeeks(df_bygame, "Spread", "Away")
    /\ train' = TrainMask(viable_input', future_weeks')
    /\ pc' = "gbc_split"
    /\ UNCHANGED <<pairVars, result, points_result, printed, season2015_bygame,
                   prior_data_byteam, season2015_byteam, df, df_bygame,
                   df_byteam, arg, param>>

\* line 195
ClassifierFit ==
    /\ pc = "gbc_split"
    /\ pc' = IF GbcFitRaises(df_bygame, train) THEN "gbc_fit_raised"
             ELSE "gbc_fit"
    /\ UNCHANGED <<pairVars, stageVars, season2015_bygame, prior_data_byteam,
                   season2015_byteam, df, df_bygame, df_byteam, arg, param>>

\* lines 198-217
ClassifierPredict ==
    /\ pc = "gbc_fit"
    /\ LET rows == Masked(df_bygame, PredictMask(viable_input, future_weeks))
       IN  IF PredictRaises(rows)
           THEN /\ printed' = Append(printed,
                                     "No viable data available for prediction.")
                /\ pc' = "gbc_predict_raised"
                /\ UNCHANGED result
           ELSE /\ \E p \in [DOMAIN rows -> ProbValues] :
                      result' = WinResult(rows, p, season2015_bygame)
                /\ pc' = "gbc_predicted"
                /\ UNCHANGED printed
    /\ UNCHANGED <<pairVars, viable_input, future_weeks, train, points_result,
                   season2015_bygame, prior_data_byteam, season2015_byteam,
                   df, df_bygame, df_byteam, arg, param>>

\* lines 227-241
StageRebuild ==
    /\ pc = "gbc_predicted"
    /\ df_byteam' = RebuildByTeam(df_bygame)
    /\ pc' = "rebuilt"
    /\ UNCHANGED <<pairVars, stageVars, season2015_bygame, prior_data_byteam,
                   season2015_byteam, df, df_bygame, arg, param>>

\* lines 245-272
RegressorSplit ==
    /\ pc = "rebuilt"
    /\ viable_input' =
          ViableInput(df_byteam, RegressorFeatures, BothViews(df_bygame))
    /\ future_weeks' = FutureWeeks(df_byteam, "Points", "Opponent")
    /\ train' = TrainMask(viable_input', future_weeks')
    /\ pc' = "ridge_split"
    /\ UNCHANGED <<pairVars, result, points_result, printed, season2015_bygame,
                   prior_data_byteam, season2015_byteam, df, df_bygame,
                   df_byteam, arg, param>>

\* line 273
RegressorFit ==
    /\ pc = "ridge_split"
    /\ pc' = IF RidgeFitRaises(df_byteam, train) THEN "ridge_fit_raised"
             ELSE "ridge_fit"
    /\ UNCHANGED <<pairVars, stageVars, season2015_bygame, prior_data_byteam,
                   season2015_byteam, df, df_bygame, df_byteam, arg, param>>

\* lines 276-298
RegressorPredict ==
    /\ pc = "ridge_fit"
    /\ LET rows == Masked(df_byteam, PredictMask(viable_input, future_weeks))
       IN  IF PredictRaises(rows)
           THEN /\ printed' = Append(printed,
                                     "No viable data available for prediction.")
                /\ pc' = "ridge_predict_raised"
                /\ UNCHANGED <<result, points_result>>
           ELSE /\ \E q \in [DOMAIN rows -> PointValues] :
                      /\ points_result' = PointsResult(rows, q)
                      /\ result' =
                            MergeOn(result, points_result',
                                    {"Season", "Week", "Home Team", "Away Team"})
                /\ pc' = "done"
                /\ UNCHANGED printed
    /\ UNCHANGED <<pairVars, viable_input, future_weeks, train,
                   season2015_bygame, prior_data_byteam, season2015_byteam,
                   df, df_bygame, df_byteam, arg, param>>

StageNext ==
    \/ StageAddGame
    \/ ClassifierSplit
    \/ ClassifierFit
    \/ ClassifierPredict
    \/ StageRebuild
    \/ RegressorSplit
    \/ RegressorFit
    \/ RegressorPredict

StageSpec == StageInit /\ [][StageNext]_vars

----------------------------------------------------------------------------
(* Claims about from_byteam_to_bygame (ConvSpec) *)

Converted == pc \in {"converted", "back"}

ConvStatCols == {"Points", "Fumbles"}

HomeRows(t) == Side(t, TRUE)

TeamKey(r) == <<r["Season"], r["Week"], r["Team"]>>

UniqueKeys(t) ==
    \A i, j \in DOMAIN t : i # j => TeamKey(t[i]) # TeamKey(t[j])

IsBye(r) == IsNull(r["Opponent"])

\* the game a by-team row belongs to: <<Season, Week, home team, away team>>
GameOf(r) ==
    IF r["AtHome"] = Some(TRUE)
    THEN <<r["Season"], r["Week"], r["Team"], r["Opponent"]>>
    ELSE <<r["Season"], r["Week"], r["Opponent"], r["Team"]>>

GameOfByGame(g) == <<g["Season"], g["Week"], g["Home"], g["Away"]>>

RowsOfGame(t, g, athome) ==
    {i \in DOMAIN t : /\ ~IsBye(t[i])
                      /\ t[i]["AtHome"] = Some(athome)
                      /\ GameOf(t[i]) = g}

\* the precondition of C1
WellFormedByTeam(t) ==
    /\ UniqueKeys(t)
    /\ \A i \in DOMAIN t :
          IF IsBye(t[i]) THEN t[i]["AtHome"] = Some(TRUE)
          ELSE /\ Cardinality(RowsOfGame(t, GameOf(t[i]), TRUE)) = 1
               /\ Cardinality(RowsOfGame(t, GameOf(t[i]), FALSE)) = 1

AwayRowOf(t, h) ==
    t[CHOOSE i \in DOMAIN t : i \in RowsOfGame(t, GameOf(h), FALSE)]

ByGameColumns(dm) ==
    common_cols \cup dm
        \cup {"H_" \o c : c \in ConvStatCols \ dm}
        \cup {"A_" \o c : c \in ConvStatCols \ dm}

\* C1: on a by-team table with unique (Season, Week, Team), one home and one
\* away row per game and byes recorded at home, from_byteam_to_bygame returns
\* one row per home row: Home and Away are the home row's Team and Opponent,
\* H_c and A_c are the home and the away row's values of every mirrored
\* column c, a dont_mirror column keeps the home row's value, and a bye row
\* is kept with every A_ column null.
C1_OneRowPerHomeRow ==
    (Converted /\ WellFormedByTeam(arg)) =>
        LET home == HomeRows(arg)
            dm == param.dont_mirror
        IN  /\ Len(df_bygame) = Len(home)
            /\ \A i \in DOMAIN home :
                  LET h == home[i]
                      g == df_bygame[i]
                  IN  /\ DOMAIN g = ByGameColumns(dm)
                      /\ g["Season"] = h["Season"]
                      /\ g["Week"] = h["Week"]
                      /\ g["Home"] = h["Team"]
                      /\ g["Away"] = h["Opponent"]
                      /\ \A c \in dm : g[c] = h[c]
                      /\ \A c \in ConvStatCols \ dm :
                            /\ g["H_" \o c] = h[c]
                            /\ g["A_" \o c] =
                                  IF IsBye(h) THEN Null ELSE AwayRowOf(arg, h)[c]

C1_Witness ==
    /\ pc = "converted"
    /\ WellFormedByTeam(arg)
    /\ param.dont_mirror = {"Points"}
    /\ \E i, j \in DOMAIN df_bygame :
          /\ IsNull(df_bygame[i]["Away"])
          /\ NotNull(df_bygame[j]["Away"])
          /\ NotNull(df_bygame[j]["A_Fumbles"])

\* the same (Season, Week, Team) twice on the home side or on the away side
HasDuplicateKey(t) ==
    \E i, j \in DOMAIN t :
        /\ i # j
        /\ TeamKey(t[i]) = TeamKey(t[j])
        /\ t[i]["AtHome"] = t[j]["AtHome"]

\* C2: with a (Season, Week, Team) repeated on the home side or on the away
\* side the conversion ends in an error, and it never returns a table in
\* which a game has more rows than it has home rows in the input.
C2_DuplicateKeysFail ==
    /\ HasDuplicateKey(arg) => ~Converted
    /\ Converted =>
          \A k \in DOMAIN df_bygame :
              LET g == GameOfByGame(df_bygame[k])
              IN  Cardinality({i \in DOMAIN df_bygame :
                                  GameOfByGame(df_bygame[i]) = g})
                    <= Cardinality({i \in DOMAIN arg :
                                      /\ arg[i]["AtHome"] = Some(TRUE)
                                      /\ GameOf(arg[i]) = g})

\* C3: with unique (Season, Week, Team), the by-game table converted back
\* on its home side (Home -> Team, Away -> Opponent, H_ stripped, AtHome
\* true) is the table of the original home rows, in every column that is not
\* in dont_mirror.
C3_RoundTripHome ==
    (pc = "back" /\ UniqueKeys(arg)) =>
        LET home == HomeRows(arg)
        IN  /\ Len(df_byteam) = Len(home)
            /\ \A i \in DOMAIN home :
                  \A c \in Columns(arg) \ param.dont_mirror :
                      /\ c \in DOMAIN df_byteam[i]
                      /\ df_byteam[i][c] = home[i][c]

C3_Witness ==
    /\ pc = "back"
    /\ UniqueKeys(arg)
    /\ Len(HomeRows(arg)) >= 2
    /\ \E i \in DOMAIN df_byteam : NotNull(df_byteam[i]["O_Fumbles"])
    /\ \E i \in DOMAIN df_byteam : IsNull(df_byteam[i]["Opponent"])

----------------------------------------------------------------------------
(* Claims about add_derived_columns (DerivedSpec) *)

\* the place in the argument table of a row of the result
InputIndex(r) == CHOOSE i \in DOMAIN arg : TeamKey(arg[i]) = TeamKey(r)

SameTeamSeason(a, b) == a["Team"] = b["Team"] /\ a["Season"] = b["Season"]

\* the rows of the argument with a spread, in the group of row i and seen
\* by the running sums up to and including row i
SpreadsSeen(i) ==
    {j \in 1..i : /\ SameTeamSeason(arg[j], arg[i])
                  /\ NotNull(arg[j]["Points"])
                  /\ NotNull(arg[j]["PointsAllowed"])}

\* twice the numerator wins + 0.5 * ties of a row's WinPct
Numerator2(r) == IF IsNull(r["WinPct"]) THEN 0 ELSE Val(r["WinPct"])[1]

EarlierWeeks(k) ==
    {j \in DOMAIN df : /\ SameTeamSeason(df[j], df[k])
                       /\ Val(df[j]["Week"]) < Val(df[k]["Week"])}

\* the row of the group that comes just before row k in Week order
PrecedingRow(k) ==
    df[CHOOSE j \in EarlierWeeks(k) :
          \A j2 \in EarlierWeeks(k) : Val(df[j2]["Week"]) <= Val(df[j]["Week"])]

\* C8: after add_derived_columns LastWkBye is false on the first row of every
\* (Team, Season) group in Week order, whatever its Week, false on every row
\* of Week 1, and on every other row it is true exactly when the row just
\* before it in the group has a null Spread.
C8_LastWkBye ==
    pc = "derived" =>
        \A k \in DOMAIN df :
            df[k]["LastWkBye"] =
                Some(IF EarlierWeeks(k) = {} \/ df[k]["Week"] = Some(1)
                     THEN FALSE
                     ELSE IsNull(PrecedingRow(k)["Spread"]))

----------------------------------------------------------------------------
(* Claims about add_rolling_mean and add_lag (StatSpec) *)

\* row a of the argument is at or before row b in (Season, Week) order
AtOrBefore(a, b) ==
    \/ Val(a["Season"]) < Val(b["Season"])
    \/ /\ a["Season"] = b["Season"]
       /\ Val(a["Week"]) <= Val(b["Week"])

\* the rows of the argument of the team of row i, from row j to row i in
\* (Season, Week) order
TeamRowsFromTo(j, i) ==
    {x \in DOMAIN arg : /\ arg[x]["Team"] = arg[i]["Team"]
                        /\ AtOrBefore(arg[j], arg[x])
                        /\ AtOrBefore(arg[x], arg[i])}

\* the last n rows of the team of row i that end at row i
LastRows(i, n) ==
    {j \in DOMAIN arg : /\ arg[j]["Team"] = arg[i]["Team"]
                        /\ AtOrBefore(arg[j], arg[i])
                        /\ Cardinality(TeamRowsFromTo(j, i)) <= n}

RECURSIVE SumOf(_, _)
\* the sum of column c over the rows S of the argument
SumOf(S, c) ==
    IF S = {} THEN 0
    ELSE LET j == CHOOSE x \in S : TRUE
         IN  Val(arg[j][c]) + SumOf(S \ {j}, c)

\* the result keeps every row of the argument, with one more column
KeepsRows(newcol) ==
    /\ Len(df) = Len(arg)
    /\ \A k \in DOMAIN df : DropCols(df[k], {newcol}) = arg[InputIndex(df[k])]

\* C9: add_rolling_mean writes, at every row, null when fewer than
\* min_periods of the team's last `window` rows ending there (earlier seasons
\* included) have a value, and the mean of those values otherwise.
C9_RollingMean ==
    pc = "rolled" =>
        /\ KeepsRows("m_Fumbles")
        /\ \A k \in DOMAIN df :
              LET i == InputIndex(df[k])
                  V == {j \in LastRows(i, param.window) :
                            NotNull(arg[j]["Fumbles"])}
                  m == df[k]["m_Fumbles"]
              IN  IF Cardinality(V) < param.min_periods THEN IsNull(m)
                  ELSE /\ NotNull(m)
                       /\ Val(m)[2] > 0
                       /\ Val(m)[1] * Cardinality(V)
                            = SumOf(V, "Fumbles") * Val(m)[2]

\* window 2, min_periods 2, three rows of one team across two seasons: the
\* first mean is null, the second is the mean of the two values, and the
\* third leaves the first value out
C9_Witness ==
    /\ pc = "rolled"
    /\ param.window = 2
    /\ param.min_periods = 2
    /\ \E k \in DOMAIN df :
          /\ k + 2 \in DOMAIN df
          /\ df[k]["Team"] = df[k + 2]["Team"]
          /\ df[k]["Season"] = Some(2014)
          /\ df[k]["Fumbles"] = Some(1)
          /\ IsNull(df[k]["m_Fumbles"])
          /\ df[k + 1]["Fumbles"] = Some(2)
          /\ df[k + 1]["m_Fumbles"] = Some(<<3, 2>>)
          /\ df[k + 2]["Fumbles"] = Some(2)
          /\ df[k + 2]["m_Fumbles"] = Some(<<4, 2>>)

\* the rows of the argument of the team of row i that come before it
TeamRowsBefore(i) ==
    {j \in DOMAIN arg : /\ j # i
                        /\ arg[j]["Team"] = arg[i]["Team"]
                        /\ AtOrBefore(arg[j], arg[i])}

\* C10: add_lag writes null on the first `lag` rows of every team in
\* (Season, Week) order and, on every later row, the value `lag` rows earlier
\* of that team; the count runs across seasons.
C10_Lag ==
    pc = "lagged" =>
        /\ KeepsRows("lag_Fumbles")
        /\ \A k \in DOMAIN df :
              LET i == InputIndex(df[k])
                  before == TeamRowsBefore(i)
              IN  IF Cardinality(before) < param.lag
                  THEN IsNull(df[k]["lag_Fumbles"])
                  ELSE \E j \in before :
                          /\ Cardinality(TeamRowsFromTo(j, i)) = param.lag + 1
                          /\ df[k]["lag_Fumbles"] = arg[j]["Fumbles"]

\* the first row of a team's 2015 season takes the value of its last row of
\* 2014
C10_Witness ==
    /\ pc = "lagged"
    /\ param.lag = 1
    /\ \E k \in DOMAIN df :
          /\ k + 1 \in DOMAIN df
          /\ df[k]["Team"] = df[k + 1]["Team"]
          /\ df[k]["Season"] = Some(2014)
          /\ df[k]["Fumbles"] = Some(2)
          /\ IsNull(df[k]["lag_Fumbles"])
          /\ df[k + 1]["Season"] = Some(2015)
          /\ df[k + 1]["Fumbles"] = Some(1)
          /\ df[k + 1]["lag_Fumbles"] = Some(2)

----------------------------------------------------------------------------
(* Claims about the season assembler (Spec) *)

\* C4: the by-team table rebuilt from the by-game table carries, for both
\* rows of every game, the Team, Opponent, Points, Spread and VegasSpread of
\* the original by-team row of that team and (Season, Week).
C4_RebuildReproduces ==
    pc = "rebuilt" =>
        \A i \in DOMAIN df :
            NotNull(df[i]["Opponent"]) =>
                \E k \in DOMAIN df_byteam :
                    /\ TeamKey(df_byteam[k]) = TeamKey(df[i])
                    /\ df_byteam[k]["AtHome"] = df[i]["AtHome"]
                    /\ \A c \in {"Opponent", "Points", "Spread", "VegasSpread"} :
                          df_byteam[k][c] = df[i][c]

ScheduleTeams ==
    {Val(season2015_bygame[i]["Home Team"]) : i \in DOMAIN season2015_bygame}
        \cup
    {Val(season2015_bygame[i]["Away Team"]) : i \in DOMAIN season2015_bygame}

ScheduleWeeks ==
    {Val(season2015_bygame[i]["Week"]) : i \in DOMAIN season2015_bygame}

\* C5: after the bye synthesis the current season has exactly one row for
\* every team of the schedule, home or away, and every week of the schedule,
\* and a row that is no scheduled game has a null Opponent and AtHome true.
C5_OneRowPerTeamWeek ==
    pc # "read" =>
        /\ \A team \in ScheduleTeams, w \in ScheduleWeeks :
              Cardinality({i \in DOMAIN season2015_byteam :
                              /\ season2015_byteam[i]["Team"] = Some(team)
                              /\ season2015_byteam[i]["Week"] = Some(w)}) = 1
        /\ \A i \in DOMAIN season2015_byteam :
              LET r == season2015_byteam[i]
              IN  ~PlaysIn(Val(r["Team"]), Val(r["Week"])) =>
                      /\ IsNull(r["Opponent"])
                      /\ r["AtHome"] = Some(TRUE)

\* the rows of df of the team and season of row k, up to its week
ToDate(k) ==
    {j \in DOMAIN df : /\ SameTeamSeason(df[j], df[k])
                       /\ Val(df[j]["Week"]) <= Val(df[k]["Week"])}

\* C6: in the table of the assembler WinPct is, at every row,
\* (wins + 0.5 * ties) / (non-null spreads) over the rows of the same team
\* and season up to that row's week, whatever the order of the rows was.
C6_WinPctToDate ==
    pc = "derived" =>
        \A k \in DOMAIN df :
            LET g == ToDate(k)
                w == df[k]["WinPct"]
            IN  IF Played(df, g) = 0 THEN IsNull(w)
                ELSE /\ NotNull(w)
                     /\ Val(w)[1] * 2 * Played(df, g)
                          = (Ties(df, g) + 2 * Wins(df, g)) * Val(w)[2]

----------------------------------------------------------------------------
(* Claims about the three grouped statistics on two tables (PairSpec) *)

\* the rows of table t of the team of row r that are at or before r in
\* (Season, Week) order
RowsUpTo(t, r) ==
    {t[j] : j \in {x \in DOMAIN t : /\ t[x]["Team"] = r["Team"]
                                     /\ AtOrBefore(t[x], r)}}

\* C11: add_rolling_mean, add_ewma and add_lag write at a row a value that
\* depends only on the rows of the same team at or before it in
\* (Season, Week) order: two tables that agree on those rows get the same
\* value at that row, whatever they hold of other teams and of later weeks
\* and whatever the order of their rows.  The two tables are one change
\* apart; any two tables that agree on those rows are joined by a chain of
\* such changes that leaves those rows alone.
C11_DependsOnOwnPast ==
    pc = "paired" =>
        \A k \in DOMAIN df, k2 \in DOMAIN df2 :
            (/\ TeamKey(df[k]) = TeamKey(df2[k2])
             /\ RowsUpTo(arg, df[k]) = RowsUpTo(arg2, df[k])) =>
                df[k][param.col] = df2[k2][param.col]

\* the mean at a row is the same in two tables that differ in a later week
\* of the team, or in another team, or in the order of their rows
C11_Witness ==
    /\ pc = "paired"
    /\ param.op = "add_ewma"
    /\ arg # arg2
    /\ Len(arg) = Len(arg2)
    /\ \E k \in DOMAIN df, k2 \in DOMAIN df2 :
          /\ TeamKey(df[k]) = TeamKey(df2[k2])
          /\ RowsUpTo(arg, df[k]) = RowsUpTo(arg2, df[k])
          /\ Cardinality(RowsUpTo(arg, df[k])) = 2
          /\ df[k]["ewma_Fumbles"] = Some(<<8, 5>>)
          /\ \E j \in DOMAIN arg :
                /\ arg[j]["Team"] = df[k]["Team"]
                /\ ~AtOrBefore(arg[j], df[k])
                /\ arg[j] \notin Range(arg2)

----------------------------------------------------------------------------
(* Claims about the two model stages (StageSpec) *)

\* row i of table t is in the prediction set of the stage
Predicted(i) == viable_input[i] /\ future_weeks[i]

\* what C12 says of a stage: its table, features, target and opponent column
SplitIsSound(t, features, target, opponent) ==
    \A i \in DOMAIN t :
        LET complete == \A c \in features : NotNull(t[i][c])
        IN  /\ ~(train[i] /\ Predicted(i))
            /\ train[i] => complete /\ NotNull(t[i][target])
            /\ IsNull(t[i][opponent]) => ~train[i] /\ ~Predicted(i)
            /\ Predicted(i) <=>
                  complete /\ IsNull(t[i][target]) /\ NotNull(t[i][opponent])

\* C12: in the classifier stage and in the regressor stage the training set
\* and the prediction set are disjoint, a training row has every feature and
\* its target (Spread, Points), a bye row is in neither set, and the
\* prediction set is the rows with every feature, no target and an opponent.
C12_TrainPredictSplit ==
    /\ pc = "gbc_split" =>
          /\ DOMAIN train = DOMAIN df_bygame
          /\ SplitIsSound(df_bygame, ClassifierFeatures, "Spread", "Away")
    /\ pc = "ridge_split" =>
          /\ DOMAIN train = DOMAIN df_byteam
          /\ SplitIsSound(df_byteam, RegressorFeatures, "Points", "Opponent")

\* the regressor stage with a bye week, a row trained on, a row predicted
\* on, and the played side of a game whose other side is predicted
C12_Witness ==
    /\ pc = "ridge_split"
    /\ \E i \in DOMAIN df_bygame : IsNull(df_bygame[i]["Away"])
    /\ \E i, j, k \in DOMAIN df_byteam :
          /\ train[i] /\ Predicted(j) /\ ~train[k] /\ ~Predicted(k)
          /\ IsNull(df_byteam[k]["Opponent"])
    /\ \E i, j \in DOMAIN df_byteam :
          /\ train[i] /\ Predicted(j)
          /\ df_byteam[i]["Opponent"] = df_byteam[j]["Team"]
          /\ df_byteam[i]["Week"] = df_byteam[j]["Week"]

\* C13: when no row is both viable and a future week the run prints the
\* message and goes on to its end, with an empty prediction set and an empty
\* report; it does not end in an error at the prediction.
C13_NoPredictionContinues ==
    /\ pc \in {"gbc_predict_raised", "ridge_predict_raised"} =>
          \E i \in DOMAIN viable_input : Predicted(i)
    /\ (pc = "done" /\ \A i \in DOMAIN viable_input : ~Predicted(i)) =>
          result = <<>>

\* the games of the win-probability prediction set: every feature there, no
\* Spread, an away team
PredictedGames ==
    {i \in DOMAIN df_bygame :
        /\ \A c \in ClassifierFeatures : NotNull(df_bygame[i][c])
        /\ IsNull(df_bygame[i]["Spread"])
        /\ NotNull(df_bygame[i]["Away"])}

\* the rows of the report of game i of the by-game table
ReportRowsOf(i) ==
    {k \in DOMAIN result :
        /\ result[k]["Season"] = df_bygame[i]["Season"]
        /\ result[k]["Week"] = df_bygame[i]["Week"]
        /\ result[k]["Home Team"] = df_bygame[i]["Home"]
        /\ result[k]["Away Team"] = df_bygame[i]["Away"]}

\* C14: the final report has exactly one row for every game of the
\* win-probability prediction set, with predicted points for both sides,
\* also when only one side's points were entered, and no other row.
C14_OneRowPerPredictedGame ==
    pc = "done" =>
        /\ \A i \in PredictedGames :
              /\ Cardinality(ReportRowsOf(i)) = 1
              /\ \A k \in ReportRowsOf(i) :
                    /\ NotNull(result[k]["Predicted Points"])
                    /\ NotNull(result[k]["Predicted Points Allowed"])
        /\ \A k \in DOMAIN result : \E i \in PredictedGames : k \in ReportRowsOf(i)

\* the rows of the win result in the season and week of row k
WeekOf(k) ==
    {j \in DOMAIN result : /\ result[j]["Season"] = result[k]["Season"]
                           /\ result[j]["Week"] = result[k]["Week"]}

\* a rank a is below a rank b, both fractions
RankBelow(a, b) == Val(a)[1] * Val(b)[2] < Val(b)[1] * Val(a)[2]

\* C15: within every (Season, Week) of the win result Confidence lies
\* between 1 and the number of games predicted for that week, a strictly
\* higher win probability has a strictly higher Confidence, and equal
\* probabilities have equal Confidence.
C15_ConfidenceIsRank ==
    pc = "gbc_predicted" =>
        \A k \in DOMAIN result :
            LET c == result[k]["Confidence"]
            IN  /\ NotNull(c)
                /\ Val(c)[2] > 0
                /\ Val(c)[2] <= Val(c)[1]
                /\ Val(c)[1] <= Cardinality(WeekOf(k)) * Val(c)[2]
                /\ \A j \in WeekOf(k) :
                      LET pk == Val(result[k]["Win Probability"])
                          pj == Val(result[j]["Win Probability"])
                      IN  /\ pj < pk => RankBelow(result[j]["Confidence"], c)
                          /\ pj = pk => result[j]["Confidence"] = c

\* two games of one week, the lower probability ranked 1, the higher 2
C15_Witness ==
    /\ pc = "gbc_predicted"
    /\ \E j, k \in DOMAIN result :
          /\ j \in WeekOf(k)
          /\ result[j]["Win Probability"] = Some(3)
          /\ result[j]["Confidence"] = Some(<<2, 2>>)
          /\ result[k]["Win Probability"] = Some(7)
          /\ result[k]["Confidence"] = Some(<<4, 2>>)

----------------------------------------------------------------------------
(* A further claim about the season assembler (Spec) *)

\* C16: in the table of the assembler a row of a week after the first, whose
\* team has a row for the week before in the same season, has LastWkBye true
\* exactly when that row is a bye week (null Opponent); after a scheduled
\* game that is not played yet LastWkBye is false.
C16_LastWkByeIsBye ==
    pc = "derived" =>
        \A k, j \in DOMAIN df :
            (/\ SameTeamSeason(df[j], df[k])
             /\ Val(df[k]["Week"]) > 1
             /\ Val(df[j]["Week"]) = Val(df[k]["Week"]) - 1) =>
                (df[k]["LastWkBye"] = Some(TRUE) <=> IsNull(df[j]["Opponent"]))

====
